---- MODULE Spec2Model ----
(***************************************************************************)
(* Model of the progressive level-of-detail scheduler of the OME-Zarr      *)
(* ortho viewer (src/main.py, class OMEZarrOrthoViewer).                   *)
(*                                                                         *)
(* Time is counted in units of 0.1 s.  Levels and axes are numbered from 0 *)
(* as in the source; shapes[level][axis] is self.shapes[level][axis].      *)
(***************************************************************************)
EXTENDS Integers, Sequences, FiniteSets, TLC

VARIABLES
    shapes,                 \* self.shapes (one shape per level of self.pyramid)
    LOW_RES,                \* self.LOW_RES
    indices,                \* self.indices
    last_rendered_indices,  \* self.last_rendered_indices
    rendered_levels,        \* self.rendered_levels
    last_interaction,       \* self.last_interaction
    now,                    \* the clock read by time.time()
    log,                    \* frames handed to self.views since the last input event
    err,                    \* axis whose render_slice raised in the latest step, or NoErr
    arr,                    \* render_slice's arr: raw samples and their dtype
    arr_8bit                \* render_slice's arr_8bit

vars == <<shapes, LOW_RES, indices, last_rendered_indices, rendered_levels,
          last_interaction, now, log, err, arr, arr_8bit>>

----------------------------------------------------------------------------
(* Bounds of the model *)

MaxTime == 2        \* the clock stops advancing here
MaxDim == 3         \* largest dimension of the pyramids of SpecMap
RawSlack == 1       \* how far outside the slider range a raw event value may lie
MaxRaw == 65792     \* largest raw sample of the slices of SpecConvert (2^16 + 2^8)

----------------------------------------------------------------------------
(* Program constants *)

HIGH_RES == 0
DEBOUNCE_TIME == 2      \* 0.2 s
NumAxes == 3            \* range(3)
Sentinel == -1          \* the -1 of last_rendered_indices
ShiftBits == 8          \* the 8 of ">> 8"
Uint8Bits == 8          \* the width of np.uint8

Axes == 0 .. NumAxes - 1
NoErr == -1

----------------------------------------------------------------------------
(* Pyramids *)

Shape3(a, b, c) == [i \in Axes |-> IF i = 0 THEN a ELSE IF i = 1 THEN b ELSE c]

\* a list of level shapes, indexed by level 0 .. N-1
Levels(seq) == [l \in 0 .. Len(seq) - 1 |-> seq[l + 1]]

NumLevels(sh) == Cardinality(DOMAIN sh)

\* The volume groups found under the zarr root, each with its pyramid.
Groups == {"0", "1"}

Volumes ==
    [g \in Groups |->
        IF g = "0"
        THEN Levels(<<Shape3(4, 2, 2), Shape3(2, 1, 1), Shape3(1, 1, 1)>>)
        ELSE Levels(<<Shape3(2, 2, 3), Shape3(1, 1, 2)>>)]

FirstGroup == "0"

\* the pyramid of the concrete scenario
Pyramid100 ==
    Levels(<<Shape3(100, 100, 100), Shape3(50, 50, 50), Shape3(25, 25, 25)>>)

Min(a, b) == IF a <= b THEN a ELSE b

\* int(x) of Python for the quotient n / d, d > 0: truncation towards zero
Trunc(n, d) == IF n >= 0 THEN n \div d ELSE -((-n) \div d)

----------------------------------------------------------------------------
(* render_slice *)

\* ScaledIndex with the scale factor computed by integer division.
ScaledIndex_IntScale(sh, axis, level0_index, level) ==
    Min(level0_index * (sh[level][axis] \div sh[0][axis]), sh[level][axis] - 1)

\* Coordinate mapping.  The source multiplies by the double shapes[level][axis]
\* / shapes[0][axis]; for every shape used here (dimensions up to 43, and the
\* dimensions 100, 50, 25) the truncated double product equals the truncated
\* exact quotient.
ScaledIndex(sh, axis, level0_index, level) ==
    Min(Trunc(level0_index * sh[level][axis], sh[0][axis]), sh[level][axis] - 1)

\* data[scaled_index] raises IndexError below -shape (a negative index down
\* to -shape wraps around).
IndexError(sh, axis, level0_index, level) ==
    \/ level \notin DOMAIN sh
    \/ ScaledIndex(sh, axis, level0_index, level) < -sh[level][axis]

Frame(sh, axis, level0_index, level) ==
    [axis |-> axis, level |-> level, idx |-> level0_index,
     plane |-> ScaledIndex(sh, axis, level0_index, level)]

\* no slice computed yet
NoArray == [dtype |-> 0, px |-> <<>>]

\* x >> n on a non-negative integer
ShiftRight(x, n) == x \div 2^n

\* astype(np.uint8) on an integer array keeps the low 8 bits of each sample
AsUint8(x) == x % 2^Uint8Bits

\* (arr.compute() >> 8).astype(np.uint8)
FastConversion(a) == [k \in DOMAIN a.px |-> AsUint8(ShiftRight(a.px[k], ShiftBits))]

\* render_slice raises when the index is out of range or when the backing
\* store fails while computing the slice (io).
Raises(sh, axis, level0_index, level, io) ==
    io \/ IndexError(sh, axis, level0_index, level)

\* The viewer state touched by render_slice and by the loop of update_loop.
\* render_slice either raises (st.err set, nothing else changed) or hands the
\* frame to self.views[axis].
render_slice(st, sh, axis, level0_index, level, io) ==
    IF Raises(sh, axis, level0_index, level, io)
    THEN [st EXCEPT !.err = axis]
    ELSE [st EXCEPT !.log = Append(@, Frame(sh, axis, level0_index, level))]

----------------------------------------------------------------------------
(* update_loop *)

IsMoving == (now - last_interaction) < DEBOUNCE_TIME

\* AxisStep with the two branches in the other order: sharpening is tried
\* before the index comparison.
AxisStep_SharpenFirst(st, i, is_moving, io) ==
    IF st.err # NoErr THEN st
    ELSE IF ~is_moving /\ st.rl[i] > HIGH_RES
    THEN LET next_level == st.rl[i] - 1
             r == render_slice(st, shapes, i, indices[i], next_level, io)
         IN  IF r.err # NoErr THEN r
             ELSE [r EXCEPT !.rl[i] = next_level, !.lri[i] = indices[i]]
    ELSE IF indices[i] # st.lri[i]
    THEN LET r == render_slice(st, shapes, i, indices[i], LOW_RES, io)
         IN  IF r.err # NoErr THEN r
             ELSE [r EXCEPT !.lri[i] = indices[i], !.rl[i] = LOW_RES]
    ELSE st

\* AxisStep whose sharpening branch forgets to store next_level.
AxisStep_NoAdvance(st, i, is_moving, io) ==
    IF st.err # NoErr THEN st
    ELSE IF indices[i] # st.lri[i]
    THEN LET r == render_slice(st, shapes, i, indices[i], LOW_RES, io)
         IN  IF r.err # NoErr THEN r
             ELSE [r EXCEPT !.lri[i] = indices[i], !.rl[i] = LOW_RES]
    ELSE IF ~is_moving /\ st.rl[i] > HIGH_RES
    THEN render_slice(st, shapes, i, indices[i], st.rl[i] - 1, io)
    ELSE st

\* AxisStep whose sharpening branch does not look at is_moving.
AxisStep_NoDebounce(st, i, is_moving, io) ==
    IF st.err # NoErr THEN st
    ELSE IF indices[i] # st.lri[i]
    THEN LET r == render_slice(st, shapes, i, indices[i], LOW_RES, io)
         IN  IF r.err # NoErr THEN r
             ELSE [r EXCEPT !.lri[i] = indices[i], !.rl[i] = LOW_RES]
    ELSE IF st.rl[i] > HIGH_RES
    THEN LET next_level == st.rl[i] - 1
             r == render_slice(st, shapes, i, indices[i], next_level, io)
         IN  IF r.err # NoErr THEN r
             ELSE [r EXCEPT !.rl[i] = next_level]
    ELSE st

\* AxisStep whose sharpening branch goes straight to HIGH_RES.
AxisStep_JumpToHigh(st, i, is_moving, io) ==
    IF st.err # NoErr THEN st
    ELSE IF indices[i] # st.lri[i]
    THEN LET r == render_slice(st, shapes, i, indices[i], LOW_RES, io)
         IN  IF r.err # NoErr THEN r
             ELSE [r EXCEPT !.lri[i] = indices[i], !.rl[i] = LOW_RES]
    ELSE IF ~is_moving /\ st.rl[i] > HIGH_RES
    THEN LET r == render_slice(st, shapes, i, indices[i], HIGH_RES, io)
         IN  IF r.err # NoErr THEN r
             ELSE [r EXCEPT !.rl[i] = HIGH_RES]
    ELSE st

\* AxisStep that stores the new state before calling render_slice.
AxisStep_AssignFirst(st, i, is_moving, io) ==
    IF st.err # NoErr THEN st
    ELSE IF indices[i] # st.lri[i]
    THEN render_slice([st EXCEPT !.lri[i] = indices[i], !.rl[i] = LOW_RES],
                      shapes, i, indices[i], LOW_RES, io)
    ELSE IF ~is_moving /\ st.rl[i] > HIGH_RES
    THEN render_slice([st EXCEPT !.rl[i] = st.rl[i] - 1],
                      shapes, i, indices[i], st.rl[i] - 1, io)
    ELSE st

\* AxisStep whose sharpening stops one level above HIGH_RES.
AxisStep_StopAboveHigh(st, i, is_moving, io) ==
    IF st.err # NoErr THEN st
    ELSE IF indices[i] # st.lri[i]
    THEN LET r == render_slice(st, shapes, i, indices[i], LOW_RES, io)
         IN  IF r.err # NoErr THEN r
             ELSE [r EXCEPT !.lri[i] = indices[i], !.rl[i] = LOW_RES]
    ELSE IF ~is_moving /\ st.rl[i] > HIGH_RES + 1
    THEN LET next_level == st.rl[i] - 1
             r == render_slice(st, shapes, i, indices[i], next_level, io)
         IN  IF r.err # NoErr THEN r
             ELSE [r EXCEPT !.rl[i] = next_level]
    ELSE st

\* One iteration of "for i in range(3)".  An exception raised by an earlier
\* iteration has left the loop: nothing more is done.
AxisStep(st, i, is_moving, io) ==
    IF st.err # NoErr THEN st
    ELSE IF indices[i] # st.lri[i]
    THEN LET r == render_slice(st, shapes, i, indices[i], LOW_RES, io)
         IN  IF r.err # NoErr THEN r
             ELSE [r EXCEPT !.lri[i] = indices[i], !.rl[i] = LOW_RES]
    ELSE IF ~is_moving /\ st.rl[i] > HIGH_RES
    THEN LET next_level == st.rl[i] - 1
             r == render_slice(st, shapes, i, indices[i], next_level, io)
         IN  IF r.err # NoErr THEN r
             ELSE [r EXCEPT !.rl[i] = next_level]
    ELSE st

LoopState ==
    [lri |-> last_rendered_indices, rl |-> rendered_levels,
     log |-> log, err |-> NoErr]

\* update_loop that counts as an interaction: it stamps last_interaction.
update_loop_Stamp(fail) ==
    /\ UNCHANGED <<shapes, LOW_RES, indices, now, arr, arr_8bit>>
    /\ last_interaction' = now
    /\ \E is_moving \in {IsMoving} :
       \E s1 \in {AxisStep(LoopState, 0, is_moving, fail = 0)} :
       \E s2 \in {AxisStep(s1, 1, is_moving, fail = 1)} :
       \E s3 \in {AxisStep(s2, 2, is_moving, fail = 2)} :
           /\ last_rendered_indices' = s3.lri
           /\ rendered_levels' = s3.rl
           /\ log' = s3.log
           /\ err' = s3.err

\* fail: the axis whose extraction fails in the backing store during this
\* tick, or NoErr.  The first exception leaves update_loop, so at most one
\* extraction can fail in a tick.  s1, s2, s3 are the viewer state after
\* each iteration of the loop.
update_loop(fail) ==
    /\ UNCHANGED <<shapes, LOW_RES, indices, last_interaction, now, arr, arr_8bit>>
    /\ \E is_moving \in {IsMoving} :
       \E s1 \in {AxisStep(LoopState, 0, is_moving, fail = 0)} :
       \E s2 \in {AxisStep(s1, 1, is_moving, fail = 1)} :
       \E s3 \in {AxisStep(s2, 2, is_moving, fail = 2)} :
           /\ last_rendered_indices' = s3.lri
           /\ rendered_levels' = s3.rl
           /\ log' = s3.log
           /\ err' = s3.err

----------------------------------------------------------------------------
(* input handlers *)

\* on_slider_move that also resets the rendered levels.
on_slider_move_ResetLevels(axis, val) ==
    /\ indices' = [indices EXCEPT ![axis] = val]
    /\ last_interaction' = now
    /\ rendered_levels' = [i \in Axes |-> LOW_RES]
    /\ log' = <<>>
    /\ err' = NoErr
    /\ UNCHANGED <<shapes, LOW_RES, last_rendered_indices, now, arr, arr_8bit>>

\* on_slider_move where only the slider of axis 0 stamps last_interaction.
on_slider_move_StampFirstAxis(axis, val) ==
    /\ indices' = [indices EXCEPT ![axis] = val]
    /\ last_interaction' = IF axis = 0 THEN now ELSE last_interaction
    /\ log' = <<>>
    /\ err' = NoErr
    /\ UNCHANGED <<shapes, LOW_RES, last_rendered_indices, rendered_levels, now,
                   arr, arr_8bit>>

\* on_slider_move that renders the moved axis itself, at LOW_RES.
on_slider_move_Render(axis, val) ==
    /\ indices' = [indices EXCEPT ![axis] = val]
    /\ last_interaction' = now
    /\ last_rendered_indices' = [last_rendered_indices EXCEPT ![axis] = val]
    /\ rendered_levels' = [rendered_levels EXCEPT ![axis] = LOW_RES]
    /\ log' = <<Frame(shapes, axis, val, LOW_RES)>>
    /\ err' = NoErr
    /\ UNCHANGED <<shapes, LOW_RES, now, arr, arr_8bit>>

\* on_slider_move that marks the moved axis as to be rendered again.
on_slider_move_Invalidate(axis, val) ==
    /\ indices' = [indices EXCEPT ![axis] = val]
    /\ last_interaction' = now
    /\ last_rendered_indices' = [last_rendered_indices EXCEPT ![axis] = Sentinel]
    /\ log' = <<>>
    /\ err' = NoErr
    /\ UNCHANGED <<shapes, LOW_RES, rendered_levels, now, arr, arr_8bit>>

\* val is the value carried by the slider event
on_slider_move(axis, val) ==
    /\ indices' = [indices EXCEPT ![axis] = val]
    /\ last_interaction' = now
    /\ log' = <<>>
    /\ err' = NoErr
    /\ UNCHANGED <<shapes, LOW_RES, last_rendered_indices, rendered_levels, now,
                   arr, arr_8bit>>

Center(sh) == [i \in Axes |-> sh[0][i] \div 2]

\* handle_group_change that keeps the indices of the previous volume.
handle_group_change_NoRecenter(g) ==
    /\ shapes' = Volumes[g]
    /\ LOW_RES' = NumLevels(Volumes[g]) - 1
    /\ last_rendered_indices' = [i \in Axes |-> Sentinel]
    /\ rendered_levels' = [i \in Axes |-> NumLevels(Volumes[g]) - 1]
    /\ last_interaction' = now
    /\ log' = <<>>
    /\ err' = NoErr
    /\ UNCHANGED <<now, indices, arr, arr_8bit>>

\* handle_group_change whose refresh uses the LOW_RES of the previous pyramid.
handle_group_change_OldLowRes(g) ==
    /\ shapes' = Volumes[g]
    /\ LOW_RES' = NumLevels(Volumes[g]) - 1
    /\ indices' = Center(Volumes[g])
    /\ last_rendered_indices' = [i \in Axes |-> Sentinel]
    /\ rendered_levels' = [i \in Axes |-> LOW_RES]
    /\ last_interaction' = now
    /\ log' = <<>>
    /\ err' = NoErr
    /\ UNCHANGED <<now, arr, arr_8bit>>

\* handle_group_change interrupted right after the new pyramid and its shapes
\* are installed: the state a tick would see if it ran in between.
handle_group_change_InstallOnly(g) ==
    /\ shapes' = Volumes[g]
    /\ log' = <<>>
    /\ err' = NoErr
    /\ UNCHANGED <<LOW_RES, indices, last_rendered_indices, rendered_levels,
                   last_interaction, now, arr, arr_8bit>>

\* handle_group_change: load_active_group(e.value), the sliders are given the
\* new maximum and the centred value (which writes the same index and the
\* same timestamp again through on_slider_move), then force_refresh.
handle_group_change(g) ==
    /\ shapes' = Volumes[g]
    /\ LOW_RES' = NumLevels(Volumes[g]) - 1
    /\ indices' = Center(Volumes[g])
    /\ last_rendered_indices' = [i \in Axes |-> Sentinel]
    /\ rendered_levels' = [i \in Axes |-> NumLevels(Volumes[g]) - 1]
    /\ last_interaction' = now
    /\ log' = <<>>
    /\ err' = NoErr
    /\ UNCHANGED <<now, arr, arr_8bit>>

\* force_refresh that also stamps last_interaction, as an interaction would.
force_refresh_Stamp ==
    /\ last_rendered_indices' = [i \in Axes |-> Sentinel]
    /\ rendered_levels' = [i \in Axes |-> LOW_RES]
    /\ last_interaction' = now
    /\ log' = <<>>
    /\ err' = NoErr
    /\ UNCHANGED <<shapes, LOW_RES, indices, now, arr, arr_8bit>>

\* force_refresh called on its own, in any state of the viewer
force_refresh ==
    /\ last_rendered_indices' = [i \in Axes |-> Sentinel]
    /\ rendered_levels' = [i \in Axes |-> LOW_RES]
    /\ log' = <<>>
    /\ err' = NoErr
    /\ UNCHANGED <<shapes, LOW_RES, indices, last_interaction, now, arr, arr_8bit>>

\* time passes
Advance ==
    /\ now < MaxTime
    /\ now' = now + 1
    /\ err' = NoErr
    /\ UNCHANGED <<shapes, LOW_RES, indices, last_rendered_indices,
                   rendered_levels, last_interaction, log, arr, arr_8bit>>

----------------------------------------------------------------------------
(* The viewer driven by its widgets *)

\* __init__: load_active_group(first group), then force_refresh
Loaded(sh) ==
    /\ shapes = sh
    /\ LOW_RES = NumLevels(sh) - 1
    /\ indices = Center(sh)
    /\ last_rendered_indices = [i \in Axes |-> Sentinel]
    /\ rendered_levels = [i \in Axes |-> NumLevels(sh) - 1]
    /\ last_interaction = 0
    /\ now = 0
    /\ log = <<>>
    /\ err = NoErr

\* ... and no slice has been computed yet
InitFor(sh) ==
    /\ Loaded(sh)
    /\ arr = NoArray
    /\ arr_8bit = <<>>

Init == InitFor(Volumes[FirstGroup])

\* the values a slider with min=0, max=shape0-1 can deliver
SliderRange(axis) == 0 .. shapes[0][axis] - 1

\* the select fires on_change for a group other than the active one
OtherGroups == {g \in Groups : Volumes[g] # shapes}

Tick == \E fail \in Axes \cup {NoErr} : update_loop(fail)

SliderMove == \E axis \in Axes : \E val \in SliderRange(axis) : on_slider_move(axis, val)

GroupChange == \E g \in OtherGroups : handle_group_change(g)

Next == Tick \/ SliderMove \/ GroupChange \/ Advance

Spec == Init /\ [][Next]_vars

----------------------------------------------------------------------------
(* The viewer whose user stops acting: slider moves and group changes occur *)
(* only up to QuietFrom, DEBOUNCE_TIME before the clock of the model stops. *)
(* The timer keeps firing update_loop every 0.05 s (ui.timer), the clock    *)
(* keeps advancing, and the backing store does not fail forever: a tick     *)
(* whose extractions all succeed is eventually taken.                       *)

QuietFrom == MaxTime - DEBOUNCE_TIME

UserSliderMove == now <= QuietFrom /\ SliderMove

UserGroupChange == now <= QuietFrom /\ GroupChange

NextLive == Tick \/ UserSliderMove \/ UserGroupChange \/ Advance

SpecLive ==
    /\ Init
    /\ [][NextLive]_vars
    /\ WF_vars(Advance)
    /\ WF_vars(update_loop(NoErr))

----------------------------------------------------------------------------
(* The viewer with force_refresh called at any moment, not only at the end  *)
(* of __init__ and of handle_group_change.                                  *)

ForceRefresh == force_refresh

NextRefresh == Tick \/ SliderMove \/ GroupChange \/ Advance \/ ForceRefresh

SpecRefresh == Init /\ [][NextRefresh]_vars

----------------------------------------------------------------------------
(* The viewer driven by raw input events: on_slider_move is handed whatever *)
(* value the event carries, inside or outside the slider's range.  These    *)
(* are the bursts of events and ticks within one reading of the clock.      *)

RawRange(axis) == -RawSlack .. shapes[0][axis] - 1 + RawSlack

RawSliderMove == \E axis \in Axes : \E val \in RawRange(axis) : on_slider_move(axis, val)

NextRaw == Tick \/ RawSliderMove \/ GroupChange

SpecRaw == Init /\ [][NextRaw]_vars

----------------------------------------------------------------------------
(* The viewer whose sliders deliver values below their minimum, with the    *)
(* clock running so that the axis is sharpened on such an index.            *)

BelowRange == -RawSlack .. -1

BelowRangeMove == \E axis \in Axes : \E val \in BelowRange : on_slider_move(axis, val)

NextBelow == Tick \/ BelowRangeMove \/ Advance

SpecBelow == Init /\ [][NextBelow]_vars

----------------------------------------------------------------------------
(* The conversion of render_slice as a function: a slice of two samples of  *)
(* an unsigned integer dtype, equal or one apart, over the whole range of   *)
(* the 8-bit and 16-bit dtypes and up to MaxRaw for the 32-bit one.         *)

\* np.uint8, np.uint16, np.uint32 by their width
Dtypes == {8, 16, 32}

RECURSIVE Fits(_, _)
\* v is representable in an unsigned integer of the given number of bits
Fits(v, bits) == IF bits = 0 THEN v = 0 ELSE Fits(v \div 2, bits - 1)

RawValues(bits) == {v \in 0 .. MaxRaw : Fits(v, bits)}

InitConvert ==
    /\ Loaded(Volumes[FirstGroup])
    /\ arr_8bit = <<>>
    /\ \E d \in Dtypes : \E v \in RawValues(d) :
           \E w \in {x \in {v, v + 1} : x <= MaxRaw /\ Fits(x, d)} :
               arr = [dtype |-> d, px |-> <<v, w>>]

Convert ==
    /\ arr_8bit = <<>>
    /\ arr_8bit' = FastConversion(arr)
    /\ UNCHANGED <<shapes, LOW_RES, indices, last_rendered_indices, rendered_levels,
                   last_interaction, now, log, err, arr>>

NextConvert == Convert

SpecConvert == InitConvert /\ [][NextConvert]_vars

----------------------------------------------------------------------------
(* The concrete scenario: the 100/50/25 pyramid, and a user who moves       *)
(* axis 0 from 50 to 80 once the viewer has rendered it.                    *)

InitScenario == InitFor(Pyramid100)

SetIndex80 ==
    /\ indices[0] = 50
    /\ last_rendered_indices[0] = 50
    /\ on_slider_move(0, 80)

NextScenario == Tick \/ SetIndex80 \/ Advance

SpecScenario == InitScenario /\ [][NextScenario]_vars

----------------------------------------------------------------------------
(* render_slice as a function: any pyramid of positive shapes that do not   *)
(* grow with the level, any axis, level and level-0 index of the slider.    *)

NonIncreasing(sh) ==
    \A l \in DOMAIN sh : \A i \in Axes : l > 0 => sh[l][i] <= sh[l - 1][i]

Pyramids(n) == {sh \in [0 .. n - 1 -> [Axes -> 1 .. MaxDim]] : NonIncreasing(sh)}

InitMap == \E n \in 1 .. 3 : \E sh \in Pyramids(n) : InitFor(sh)

\* one call render_slice(axis, level0_index, level) on a viewer that has
\* rendered nothing yet
Extract(axis, level0_index, level) ==
    /\ log = <<>>
    /\ LET r == render_slice(LoopState, shapes, axis, level0_index, level, FALSE)
       IN  log' = r.log /\ err' = r.err
    /\ UNCHANGED <<shapes, LOW_RES, indices, last_rendered_indices,
                   rendered_levels, last_interaction, now, arr, arr_8bit>>

NextMap ==
    \E axis \in Axes : \E level \in DOMAIN shapes :
        \E level0_index \in SliderRange(axis) : Extract(axis, level0_index, level)

SpecMap == InitMap /\ [][NextMap]_vars

----------------------------------------------------------------------------
(* Vocabulary of the properties *)

\* the frames of one axis in a sequence of frames
FramesOf(seq, axis) == SelectSeq(seq, LAMBDA f : f.axis = axis)

\* the frames handed to the views by the step (a tick appends to log)
TickFrames == SubSeq(log', Len(log) + 1, Len(log'))

\* in the tick, the loop got to axis i and its render_slice, if any, returned
Done(i) == err' = NoErr \/ err' > i

Stale(i) == indices[i] # last_rendered_indices[i]

Sharpening(i) == ~Stale(i) /\ ~IsMoving /\ rendered_levels[i] > HIGH_RES

Settled(i) == ~Stale(i) /\ rendered_levels[i] = HIGH_RES

----------------------------------------------------------------------------
\* C1 (freshness precedence): in every tick, every axis whose index differs
\* from its last rendered index is rendered exactly once, at LOW_RES and at
\* the current index, whatever is_moving and its rendered level are, and
\* afterwards its last rendered index is the index and its rendered level is
\* LOW_RES.  (Stated of the axes the loop completes: an extraction that raises
\* ends the tick, see C8 and C9.)
C1_FreshnessPrecedence ==
    [][Tick =>
         \A i \in Axes :
            (Stale(i) /\ Done(i)) =>
                /\ FramesOf(TickFrames, i) = <<Frame(shapes, i, indices[i], LOW_RES)>>
                /\ last_rendered_indices'[i] = indices'[i]
                /\ rendered_levels'[i] = LOW_RES']_vars

\* C1 has happened: a moved axis was rendered at LOW_RES at its new index
\* outside the debounce window, while another axis had already sharpened.
C1_Witness ==
    \E i \in Axes :
        /\ indices[i] # Center(shapes)[i]
        /\ ~IsMoving
        /\ FramesOf(log, i) = <<Frame(shapes, i, indices[i], LOW_RES)>>
        /\ rendered_levels[i] = LOW_RES
        /\ last_rendered_indices[i] = indices[i]
        /\ LOW_RES > HIGH_RES
        /\ \E j \in Axes \ {i} : rendered_levels[j] < LOW_RES

\* C2 (monotonic sharpening): in every tick outside the debounce window, an
\* axis whose index equals its last rendered index and whose level is above
\* HIGH_RES is rendered once, one level finer, and its level drops by exactly
\* one; an axis at HIGH_RES is not rendered and keeps its level.
C2_MonotonicSharpening ==
    [][Tick =>
         \A i \in Axes :
            /\ (Sharpening(i) /\ Done(i)) =>
                   /\ FramesOf(TickFrames, i) =
                          <<Frame(shapes, i, indices[i], rendered_levels[i] - 1)>>
                   /\ rendered_levels'[i] = rendered_levels[i] - 1
                   /\ last_rendered_indices'[i] = last_rendered_indices[i]
            /\ Settled(i) =>
                   /\ FramesOf(TickFrames, i) = <<>>
                   /\ rendered_levels'[i] = HIGH_RES
                   /\ last_rendered_indices'[i] = last_rendered_indices[i]]_vars

\* C2 has happened: an axis went through every level, from LOW_RES >= 2 down
\* to HIGH_RES, one level per frame.
C2_Witness ==
    \E i \in Axes :
        /\ LOW_RES >= 2
        /\ rendered_levels[i] = HIGH_RES
        /\ Len(FramesOf(log, i)) = LOW_RES + 1
        /\ \A k \in 1 .. LOW_RES + 1 : FramesOf(log, i)[k].level = LOW_RES + 1 - k

\* C3 (idempotence): the ticks that run inside one debounce window, with no
\* input event between them, render each axis at most once in total (log holds
\* the frames since the last input event); and a tick renders nothing for and
\* changes nothing of an axis that is SETTLED.
C3_Idempotence ==
    [][Tick =>
         /\ IsMoving => \A i \in Axes : Len(FramesOf(log', i)) <= 1
         /\ \A i \in Axes :
               Settled(i) =>
                   /\ FramesOf(TickFrames, i) = <<>>
                   /\ rendered_levels'[i] = rendered_levels[i]
                   /\ last_rendered_indices'[i] = last_rendered_indices[i]]_vars

\* C3 has happened: inside the debounce window every axis has been rendered
\* once and a further tick has nothing to render.
C3_Witness ==
    /\ IsMoving
    /\ \A i \in Axes : Len(FramesOf(log, i)) = 1 /\ ~Stale(i)
    /\ LOW_RES > HIGH_RES

\* the three frames of axis 0 the scenario expects after the move to 80
Scenario80 ==
    << [axis |-> 0, level |-> 2, idx |-> 80, plane |-> 20],
       [axis |-> 0, level |-> 1, idx |-> 80, plane |-> 40],
       [axis |-> 0, level |-> 0, idx |-> 80, plane |-> 80] >>

IsPrefix(s, t) == Len(s) <= Len(t) /\ \A k \in 1 .. Len(s) : s[k] = t[k]

\* C4 (concrete scenario): with levels (100,100,100), (50,50,50), (25,25,25)
\* and axis 0 starting at 50, the first frame of axis 0 is level 2 at plane
\* 12; after the move to 80 the frames of axis 0 are, in this order and no
\* more, level 2 at plane 20, level 1 at plane 40, level 0 at plane 80, the
\* last two only once the debounce time has passed, and all three once the
\* axis has settled.
C4_Scenario ==
    LET a0 == FramesOf(log, 0)
    IN  /\ (indices[0] = 50 /\ a0 # <<>>) =>
               a0[1] = [axis |-> 0, level |-> 2, idx |-> 50, plane |-> 12]
        /\ indices[0] = 80 =>
               /\ IsPrefix(a0, Scenario80)
               /\ Len(a0) >= 2 => ~IsMoving
               /\ Settled(0) => a0 = Scenario80

\* C4 has happened: after the move to 80 axis 0 has shown its three frames.
C4_Witness ==
    /\ shapes = Pyramid100
    /\ indices[0] = 80
    /\ FramesOf(log, 0) = Scenario80

\* the state load_active_group and force_refresh leave behind
FreshlyLoaded ==
    \A i \in Axes :
        /\ indices[i] = shapes[0][i] \div 2
        /\ last_rendered_indices[i] = -1
        /\ rendered_levels[i] = NumLevels(shapes) - 1

\* C5 (pyramid swap reset): a volume-group change leaves every axis at the
\* centre shape0[axis] div 2 of the new pyramid, with last rendered index -1
\* and rendered level the new LOW_RES (number of new levels - 1), and stamps
\* last_interaction with the time of the change; the tick that follows, when
\* its extractions return, renders exactly three frames, axis 0, 1, 2, each at
\* that LOW_RES and at the centred index.
C5_PyramidSwapReset ==
    [][/\ (\E g \in Groups : handle_group_change(g)) =>
              /\ FreshlyLoaded'
              /\ LOW_RES' = NumLevels(shapes') - 1
              /\ last_interaction' = now'
       /\ (Tick /\ FreshlyLoaded /\ err' = NoErr) =>
              TickFrames =
                  [i \in 1 .. 3 |->
                      Frame(shapes, i - 1, shapes[0][i - 1] \div 2,
                            NumLevels(shapes) - 1)]]_vars

\* C5 has happened: after a change to another volume, whose centre and
\* LOW_RES differ from the first one's, the next tick has rendered the three
\* centred frames at the new LOW_RES.
C5_Witness ==
    /\ shapes # Volumes[FirstGroup]
    /\ LOW_RES = NumLevels(shapes) - 1
    /\ LOW_RES # NumLevels(Volumes[FirstGroup]) - 1
    /\ Center(shapes) # Center(Volumes[FirstGroup])
    /\ indices = Center(shapes)
    /\ last_rendered_indices = indices
    /\ log = [i \in 1 .. 3 |-> Frame(shapes, i - 1, shapes[0][i - 1] \div 2, LOW_RES)]

\* C6 (coordinate mapping boundary): for every pyramid of positive shapes that
\* do not grow with the level, every axis and every level, the frame extracted
\* for the last level-0 index shape0[axis]-1 is the last plane
\* shape[level][axis]-1 of that level, and the extraction does not raise.
C6_MappingBoundary ==
    /\ err = NoErr
    /\ \A k \in 1 .. Len(log) :
          log[k].idx = shapes[0][log[k].axis] - 1 =>
              log[k].plane = shapes[log[k].level][log[k].axis] - 1

\* C6 has happened: the last index was mapped into a coarser level of at
\* least two planes whose size does not divide the size of level 0.
C6_Witness ==
    \E k \in 1 .. Len(log) :
        LET f == log[k]
        IN  /\ f.level > 0
            /\ f.idx = shapes[0][f.axis] - 1
            /\ shapes[f.level][f.axis] >= 2
            /\ shapes[0][f.axis] % shapes[f.level][f.axis] # 0
            /\ f.plane = shapes[f.level][f.axis] - 1

\* C7 (index clamping): in every state, after any slider moves, pyramid swaps
\* and ticks and whatever values the slider events carried, every index lies
\* in [0, shape0[axis]-1] of the active pyramid.
C7_IndexClamped ==
    \A i \in Axes : indices[i] >= 0 /\ indices[i] <= shapes[0][i] - 1

\* what the next tick asks render_slice for axis i: <<level, index>>, or <<>>
Decision(i) ==
    IF Stale(i) THEN <<LOW_RES, indices[i]>>
    ELSE IF Sharpening(i) THEN <<rendered_levels[i] - 1, indices[i]>>
    ELSE <<>>

\* C8 (extraction failure leaves state unchanged): when render_slice raises
\* for an axis in a tick, no frame of that axis is shown, its last rendered
\* index and rendered level keep their values, and the next tick takes the
\* same decision (same level, same index) for it.
C8_FailureKeepsState ==
    [][Tick =>
         \A i \in Axes :
            err' = i =>
                /\ Decision(i) # <<>>
                /\ FramesOf(TickFrames, i) = <<>>
                /\ last_rendered_indices'[i] = last_rendered_indices[i]
                /\ rendered_levels'[i] = rendered_levels[i]
                /\ Decision(i)' = Decision(i)]_vars

\* C8 has happened: the extraction of an axis that was sharpening has just
\* failed, after the axis had been rendered at least once.
C8_Witness ==
    /\ err \in Axes
    /\ Sharpening(err)
    /\ FramesOf(log, err) # <<>>
    /\ rendered_levels[err] < LOW_RES

\* what a tick does for axis j when its extraction returns
Rendered(j) ==
    /\ Stale(j) =>
           /\ FramesOf(TickFrames, j) = <<Frame(shapes, j, indices[j], LOW_RES)>>
           /\ last_rendered_indices'[j] = indices[j]
           /\ rendered_levels'[j] = LOW_RES
    /\ Sharpening(j) =>
           /\ FramesOf(TickFrames, j) =
                  <<Frame(shapes, j, indices[j], rendered_levels[j] - 1)>>
           /\ rendered_levels'[j] = rendered_levels[j] - 1

\* C9 (per-axis failure isolation): in a tick in which the extraction of one
\* axis fails, the other two axes are still evaluated and rendered as they
\* would have been without the failure.
C9_FailureIsolation ==
    [][\A fail \in Axes :
          update_loop(fail) => \A j \in Axes \ {fail} : Rendered(j)]_vars

GroupChanged == \E g \in Groups : handle_group_change(g)

\* C10 as claimed (rendered level monotonicity): a rendered level only
\* decreases or is reset to LOW_RES, and it never increases unless the index of
\* its axis has changed (in the step, or since the axis was last rendered).
C10_Original ==
    [][\A i \in Axes :
          /\ rendered_levels'[i] # rendered_levels[i] =>
                 \/ rendered_levels'[i] < rendered_levels[i]
                 \/ rendered_levels'[i] = LOW_RES'
          /\ rendered_levels'[i] > rendered_levels[i] =>
                 \/ indices'[i] # indices[i]
                 \/ Stale(i)]_vars

\* C10 as amended: a rendered level changes only by dropping by one or by
\* being reset to the LOW_RES of the active pyramid; it increases only in a
\* tick that renders the axis because its index differs from the last rendered
\* one, or in a volume-group change (load_active_group and force_refresh),
\* which resets every axis whether or not its index changed.
C10_LevelMonotone ==
    [][\A i \in Axes :
          /\ rendered_levels'[i] # rendered_levels[i] =>
                 \/ rendered_levels'[i] = rendered_levels[i] - 1
                 \/ rendered_levels'[i] = LOW_RES'
          /\ rendered_levels'[i] > rendered_levels[i] =>
                 \/ Tick /\ Stale(i)
                 \/ GroupChanged]_vars

\* C10 has happened: a volume change made after the debounce time has reset
\* an axis to LOW_RES above HIGH_RES although its index, the centre of both
\* volumes, is the same as before the change.
C10_Witness ==
    \E i \in Axes :
        /\ shapes # Volumes[FirstGroup]
        /\ FreshlyLoaded
        /\ indices[i] = Center(Volumes[FirstGroup])[i]
        /\ rendered_levels[i] > HIGH_RES
        /\ last_interaction = now
        /\ now >= DEBOUNCE_TIME

----------------------------------------------------------------------------
AllSettled == \A i \in Axes : Settled(i)

\* every frame a tick hands to the view of axis i is the frame of the current
\* index at the level the tick records for the axis
ShowsRecorded(i) ==
    FramesOf(TickFrames, i) # <<>> =>
        /\ last_rendered_indices'[i] = indices[i]
        /\ FramesOf(TickFrames, i) =
               <<Frame(shapes, i, indices[i], rendered_levels'[i])>>

\* C11 (eventual convergence): once the user has stopped moving sliders and
\* swapping pyramids, while ticks keep firing and the clock advances, every
\* axis reaches SETTLED (last_rendered_indices = indices, rendered_levels =
\* HIGH_RES) and stays there; the frame a view is left with is the one a tick
\* rendered for the current index at the recorded level, hence the level-0
\* frame of the most recent index once the axis is settled.
C11_EventualConvergence ==
    /\ <>[]AllSettled
    /\ [][Tick => \A i \in Axes : ShowsRecorded(i)]_vars

\* all axes settled at the end of the clock, in a volume with several levels,
\* on an index the user chose, the last tick having rendered the level-0 frame
C11_Witness ==
    /\ AllSettled
    /\ now = MaxTime
    /\ LOW_RES > HIGH_RES
    /\ indices # Center(shapes)
    /\ \E i \in Axes : log # <<>> /\ log[Len(log)] = Frame(shapes, i, indices[i], HIGH_RES)

----------------------------------------------------------------------------
\* the state force_refresh leaves: nothing rendered, every axis at LOW_RES
Refreshed ==
    \A i \in Axes :
        last_rendered_indices[i] = Sentinel /\ rendered_levels[i] = LOW_RES

\* the three LOW_RES frames of the current indices, in axis order
LowFrames == [i \in 1 .. NumAxes |-> Frame(shapes, i - 1, indices[i - 1], LOW_RES)]

\* C12 (force refresh): force_refresh sets every last_rendered_indices to -1
\* and every rendered_levels to LOW_RES whatever levels had been reached, and
\* changes no index and not last_interaction; the next tick then renders all
\* three axes at LOW_RES at their unchanged indices (when no extraction
\* fails), moving or not.
C12_ForceRefresh ==
    [][/\ force_refresh =>
            /\ Refreshed'
            /\ indices' = indices
            /\ last_interaction' = last_interaction
       /\ (Tick /\ Refreshed /\ err' = NoErr) =>
            /\ TickFrames = LowFrames
            /\ last_rendered_indices' = indices
            /\ rendered_levels' = [i \in Axes |-> LOW_RES]]_vars

\* long after the last interaction, on indices the user had chosen, a tick
\* has rendered a refreshed viewer: the three LOW_RES frames and nothing else
C12_Witness ==
    /\ log = LowFrames
    /\ LOW_RES > HIGH_RES
    /\ indices # Center(shapes)
    /\ last_interaction = 0
    /\ now = MaxTime

----------------------------------------------------------------------------
\* C13 (global debounce): a slider move on any axis stamps the one shared
\* last_interaction with the current time; a tick less than DEBOUNCE_TIME
\* after it performs no sharpening render on any axis: an axis that is not
\* stale, whether or not it is the one that moved, gets no frame and keeps
\* its level, and every frame of such a tick is a LOW_RES frame.
C13_GlobalDebounce ==
    [][/\ SliderMove => (last_interaction' = now' /\ IsMoving')
       /\ (Tick /\ IsMoving) =>
            /\ \A i \in Axes :
                   ~Stale(i) =>
                       /\ FramesOf(TickFrames, i) = <<>>
                       /\ rendered_levels'[i] = rendered_levels[i]
            /\ \A k \in 1 .. Len(TickFrames) : TickFrames[k].level = LOW_RES]_vars

\* inside the debounce window a tick has rendered the moved axis i and left
\* alone axis j, which did not move and is halfway through its sharpening
C13_Witness ==
    /\ IsMoving
    /\ \E i, j \in Axes :
           /\ i # j
           /\ FramesOf(log, i) # <<>>
           /\ FramesOf(log, j) = <<>>
           /\ ~Stale(j)
           /\ rendered_levels[j] > HIGH_RES
           /\ rendered_levels[j] < LOW_RES

----------------------------------------------------------------------------
\* the levels update_loop hands to render_slice in the current state: LOW_RES
\* for a stale axis, the next finer level for an axis that sharpens
RequestedLevels ==
    {LOW_RES : i \in {j \in Axes : Stale(j)}}
        \cup {rendered_levels[i] - 1 : i \in {j \in Axes : Sharpening(j)}}

\* C14 (level range): in every reachable state, also after a swap to a
\* pyramid with another number of levels, LOW_RES is the last level of the
\* active pyramid, every rendered_levels[i] lies in HIGH_RES .. LOW_RES, and
\* every level handed to render_slice, by the next tick or by the ticks since
\* the last input, is a level 0 .. N-1 of the active pyramid.
C14_LevelRange ==
    /\ LOW_RES = NumLevels(shapes) - 1
    /\ \A i \in Axes : rendered_levels[i] \in HIGH_RES .. LOW_RES
    /\ RequestedLevels \subseteq DOMAIN shapes
    /\ \A k \in 1 .. Len(log) : log[k].level \in DOMAIN shapes

\* after a swap from the three-level to the two-level pyramid, an axis has
\* been sharpened to a level strictly inside the new range
C14_Witness ==
    /\ NumLevels(shapes) = 2
    /\ \E i \in Axes :
           /\ rendered_levels[i] = HIGH_RES
           /\ FramesOf(log, i) =
                  <<Frame(shapes, i, indices[i], 1), Frame(shapes, i, indices[i], HIGH_RES)>>

----------------------------------------------------------------------------
Max(a, b) == IF a >= b THEN a ELSE b

\* floor(index * shape[level][axis] / shape0[axis]) clamped into
\* 0 .. shape[level][axis] - 1
ClampedFloor(f) ==
    Max(0, Min((f.idx * shapes[f.level][f.axis]) \div shapes[0][f.axis],
               shapes[f.level][f.axis] - 1))

\* C15 (mapped index bounds): for every axis, level and level-0 index handed
\* to render_slice, the plane sliced is the floor of index * shape[level][axis]
\* / shape0[axis] clamped into 0 .. shape[level][axis] - 1: never negative,
\* never above shape[level][axis] - 1.
C15_MappedIndexBounds ==
    [][\A k \in 1 .. Len(TickFrames) :
           /\ TickFrames[k].plane = ClampedFloor(TickFrames[k])
           /\ TickFrames[k].plane >= 0
           /\ TickFrames[k].plane <=
                  shapes[TickFrames[k].level][TickFrames[k].axis] - 1]_vars

----------------------------------------------------------------------------
\* neither branch of update_loop applies to axis i
Idle(i) == ~Stale(i) /\ (IsMoving \/ rendered_levels[i] = HIGH_RES)

\* C16 (no-op tick): for an axis whose index equals last_rendered_indices and
\* which either is inside the debounce window or already at HIGH_RES, a tick
\* renders nothing and leaves last_rendered_indices and rendered_levels of
\* the axis unchanged; and no tick, whatever it renders, changes an index or
\* last_interaction.
C16_NoOpTick ==
    [][Tick =>
           /\ \A i \in Axes :
                  Idle(i) =>
                      /\ FramesOf(TickFrames, i) = <<>>
                      /\ last_rendered_indices'[i] = last_rendered_indices[i]
                      /\ rendered_levels'[i] = rendered_levels[i]
           /\ indices' = indices
           /\ last_interaction' = last_interaction]_vars

\* ticks have run since the last input and every axis is now idle: one held
\* above HIGH_RES by the debounce window, another already at HIGH_RES
C16_Witness ==
    /\ log # <<>>
    /\ \A i \in Axes : Idle(i)
    /\ \E i, j \in Axes :
           /\ rendered_levels[i] > HIGH_RES
           /\ rendered_levels[j] = HIGH_RES

----------------------------------------------------------------------------
\* C17 (coalescing): a slider move renders nothing itself (no frame, no change
\* of last_rendered_indices or rendered_levels); a tick hands at most one
\* frame to each axis, hence at most three in all, every frame is the frame
\* of the index the axis holds at the tick (the latest one, however many
\* moves preceded the tick), and a stale axis is rendered at LOW_RES.
C17_Coalescing ==
    [][/\ SliderMove =>
            /\ log' = <<>>
            /\ last_rendered_indices' = last_rendered_indices
            /\ rendered_levels' = rendered_levels
       /\ Tick =>
            /\ Len(TickFrames) <= NumAxes
            /\ \A i \in Axes :
                   /\ Len(FramesOf(TickFrames, i)) <= 1
                   /\ \A k \in 1 .. Len(FramesOf(TickFrames, i)) :
                          /\ FramesOf(TickFrames, i)[k].idx = indices[i]
                          /\ Stale(i) => FramesOf(TickFrames, i)[k].level = LOW_RES]_vars

\* moves on two axes have been followed by one tick inside the debounce
\* window: one LOW_RES frame for each moved axis, none for the third
C17_Witness ==
    /\ IsMoving
    /\ \E i, j \in Axes :
           /\ i < j
           /\ indices[i] # Center(shapes)[i]
           /\ indices[j] # Center(shapes)[j]
           /\ log = <<Frame(shapes, i, indices[i], LOW_RES),
                      Frame(shapes, j, indices[j], LOW_RES)>>

----------------------------------------------------------------------------
\* LOW_RES, the indices and the per-axis render state all belong to the
\* pyramid whose shapes are installed
Coherent ==
    /\ LOW_RES = NumLevels(shapes) - 1
    /\ \A i \in Axes :
           /\ indices[i] \in SliderRange(i)
           /\ last_rendered_indices[i] \in {Sentinel} \cup SliderRange(i)
           /\ rendered_levels[i] \in HIGH_RES .. LOW_RES

\* frame f is cut from the installed pyramid at the current index of its axis
FromActivePyramid(f) ==
    /\ f.level \in DOMAIN shapes
    /\ f = Frame(shapes, f.axis, indices[f.axis], f.level)
    /\ f.plane \in 0 .. shapes[f.level][f.axis] - 1

\* C18 (swap atomicity): handle_group_change installs the new pyramid and
\* resets the axis and session state in one handler run, so every tick starts
\* from a state whose shapes, LOW_RES, indices and rendered levels belong to
\* one pyramid, and every frame it renders is cut from that pyramid at the
\* current index: none mixes the new pyramid with an index or level left
\* over from the old one.
C18_SwapAtomicity ==
    [][/\ GroupChanged => (Coherent' /\ Refreshed' /\ indices' = Center(shapes'))
       /\ Tick =>
            /\ Coherent
            /\ \A k \in 1 .. Len(TickFrames) : FromActivePyramid(TickFrames[k])]_vars

\* after a swap, an axis is rendered down to HIGH_RES on an index that exists
\* only in the new pyramid
C18_Witness ==
    /\ shapes # Volumes[FirstGroup]
    /\ \E i \in Axes :
           /\ indices[i] > Volumes[FirstGroup][0][i] - 1
           /\ Settled(i)
           /\ FramesOf(log, i) # <<>>
           /\ log[Len(log)].level = HIGH_RES

----------------------------------------------------------------------------
\* C19 (normalization): for every raw sample of an unsigned integer dtype of
\* at least 8 bits, the displayed intensity (x >> 8 converted to 8 bits) is
\* an integer in 0 .. 255, equal raw values give equal intensities, and a
\* larger raw value never gives a smaller intensity.
C19_Normalization ==
    arr_8bit # <<>> =>
        /\ \A k \in DOMAIN arr_8bit : arr_8bit[k] \in 0 .. 255
        /\ arr.px[1] = arr.px[2] => arr_8bit[1] = arr_8bit[2]
        /\ arr.px[1] <= arr.px[2] => arr_8bit[1] <= arr_8bit[2]

\* the same restricted to the dtypes of at most 16 bits, for which it holds
Normalization16 ==
    (arr_8bit # <<>> /\ arr.dtype <= 16) =>
        /\ \A k \in DOMAIN arr_8bit : arr_8bit[k] \in 0 .. 255
        /\ arr.px[1] = arr.px[2] => arr_8bit[1] = arr_8bit[2]
        /\ arr.px[1] <= arr.px[2] => arr_8bit[1] <= arr_8bit[2]

----------------------------------------------------------------------------
\* the slider of a stale axis is moved back to the index last rendered
MoveBack(axis) ==
    /\ Stale(axis)
    /\ last_rendered_indices[axis] # Sentinel
    /\ on_slider_move(axis, last_rendered_indices[axis])

\* C20 (value-based staleness): staleness compares values, not events: after
\* a slider move an axis is stale exactly when its index differs from the
\* value last rendered, and its level is untouched.  When
\* an index that was moved away is moved back to the last rendered value
\* before a tick has run, the axis is not stale any more and keeps its
\* rendered level; the only trace is last_interaction, stamped anew.  The
\* next tick therefore does not render the axis at LOW_RES nor raise its
\* level: it leaves it alone inside the debounce window and, after it,
\* resumes sharpening from the level reached.
C20_ValueBasedStaleness ==
    [][/\ SliderMove =>
              \A i \in Axes :
                  /\ Stale(i)' <=> indices'[i] # last_rendered_indices[i]
                  /\ rendered_levels'[i] = rendered_levels[i]
       /\ \A axis \in Axes :
              MoveBack(axis) =>
                  /\ ~Stale(axis)'
                  /\ rendered_levels' = rendered_levels
                  /\ last_rendered_indices' = last_rendered_indices
                  /\ last_interaction' = now'
       /\ Tick =>
              \A i \in Axes :
                  ~Stale(i) =>
                      /\ rendered_levels'[i] <= rendered_levels[i]
                      /\ IF IsMoving \/ rendered_levels[i] = HIGH_RES \/ ~Done(i)
                         THEN FramesOf(TickFrames, i) = <<>>
                         ELSE FramesOf(TickFrames, i) =
                                  <<Frame(shapes, i, indices[i], rendered_levels[i] - 1)>>]_vars

\* an input has just been made (nothing rendered since, timestamp fresh) and
\* yet no axis is stale, one of them halfway through its sharpening: the
\* index came back to the value last rendered
C20_Witness ==
    /\ log = <<>>
    /\ last_interaction = now
    /\ \A i \in Axes : ~Stale(i)
    /\ \E i \in Axes :
           /\ rendered_levels[i] > HIGH_RES
           /\ rendered_levels[i] < LOW_RES

====
